---- MODULE Spec2Model ----
(***************************************************************************)
(* Model of the requisition printing desk (src/App.tsx and its record      *)
(* source, src/unnamed/part_003 = services/dbService, part_002 =           *)
(* services/geminiService).                                                *)
(*                                                                         *)
(* React state is modelled as it is scheduled: a click handler's state     *)
(* updates are rendered (and its effects run) before the handler's action  *)
(* ends; the state updates of a timer callback or of the continuation of   *)
(* an await are rendered by a later step, Render, which is also where the  *)
(* effects of lines 67-73 and 88-90 run.  Click handlers are enabled by    *)
(* what the last render shows (view, docsRef, lsNew).                      *)
(***************************************************************************)
EXTENDS Integers, Sequences, FiniteSets, TLC

\* ---------------------------------------------------------------- bounds
MaxEnvEvents == 1      \* changes other clients make to the remote table, and
                       \* fetches that find the remote database unreachable
MaxInputs == 3         \* timer intervals elapsed and clicks of the user
MaxMutCalls == 1       \* updateRequisitionStatus calls awaited at once
MaxDocs == 3           \* snapshot length of the ordering specification
MaxPollDocs == 2       \* snapshot length of the dispatch specification

\* --------------------------------------------------------- program values
LimitRows == 50
Statuses == {"Approved", "Pending", "Processing", "For signing"}
NULL == "null"

\* Identifiers of rows of the remote table, and the date column of each.
DbIds == {"1", "2"}
DbDate == [i \in {"1", "2", "10"} |-> IF i = "1" THEN "2024-01-01" ELSE "2024-01-02"]
\* What other clients write into the status column.
EnvStatuses == {"Pending", "Approved"}
Absent == "absent"

\* ------------------------------------------------------------- sequences
Range(s) == {s[i] : i \in 1..Len(s)}

RECURSIVE SeqMap(_, _)
\* s.map(d => f[d]) for a function f defined on the elements of s
SeqMap(f, s) == IF s = <<>> THEN <<>> ELSE <<f[Head(s)]>> \o SeqMap(f, Tail(s))

IdsOf(s) == {s[i].id : i \in 1..Len(s)}

\* --------------------------------------------------------- record source
\* const getStr = (val) => val ? String(val) : ""
getStr(val) == IF val = NULL \/ val = "" THEN "" ELSE val

\* A mapping that keeps the status column as it is.
MapRowRaw(row) ==
  [id |-> row.id, date |-> getStr(row.date), status |-> row.status]

\* One row of the result set mapped to a DocumentData.
MapRow(row) ==
  [id |-> row.id,
   date |-> getStr(row.date),
   status |-> IF row.status \in {"Approved", "Pending", "Processing", "For signing"}
              THEN row.status ELSE "Pending"]

\* The rows of the table as a set.
RowsOf(tbl) == {[id |-> i, status |-> tbl[i], date |-> DbDate[i]] :
                  i \in {j \in DOMAIN tbl : tbl[j] # Absent}}

\* The day a date string denotes, -1 for a string that is not a date.
DayNumber(s) ==
  CASE s = "2024-01-01" -> 19723
    [] s = "2024-01-02" -> 19724
    [] s = "2024-10-25" -> 20021
    [] s = "2026-02-18" -> 20502
    [] OTHER -> -1

RECURSIVE OrderByDateDesc(_)
\* SELECT * FROM requisitions ORDER BY date DESC (ISO date strings order as
\* their days do).
OrderByDateDesc(rows) ==
  IF rows = {} THEN <<>>
  ELSE LET r == CHOOSE x \in rows : \A y \in rows : DayNumber(y.date) <= DayNumber(x.date)
       IN  <<r>> \o OrderByDateDesc(rows \ {r})

Select(tbl) ==
  LET all == OrderByDateDesc(RowsOf(tbl))
  IN  SubSeq(all, 1, IF Len(all) < LimitRows THEN Len(all) ELSE LimitRows)

RECURSIVE MapRows(_)
MapRows(rows) == IF rows = <<>> THEN <<>> ELSE <<MapRow(Head(rows))>> \o MapRows(Tail(rows))

\* The hard-coded record fetchMockDatabaseRecords returns from its catch.
FallbackData == <<[id |-> "001592", date |-> "2024-10-25", status |-> "Pending"]>>
\* A list the generative service answers with.
GeneratedData == <<[id |-> "SGHC PUR-2026-02-0001", date |-> "2026-02-18", status |-> "Approved"]>>

\* fetchMockDatabaseRecords: the generated list, [] when the answer has no
\* text, and the fallback list for every error (a missing key included).
\* It never rejects.
fetchMockDatabaseRecords == {GeneratedData, <<>>, FallbackData}

\* fetchDatabaseRecords: the mapped rows when the query succeeds; when the
\* primary path throws, whatever the mock service returns.  The rethrow of
\* line 123 needs the mock service to reject, which it never does.
fetchDatabaseRecords(tbl, reachable) ==
  IF reachable THEN {MapRows(Select(tbl))} ELSE fetchMockDatabaseRecords

\* ------------------------------------------------------ persisted tag sets
\* A value of localStorage: no key, text that is not JSON, or the JSON of an
\* array of identifiers.
Missing == [kind |-> "missing", items |-> {}]
Corrupt == [kind |-> "corrupt", items |-> {}]
\* JSON.stringify(Array.from(set))
Serialize(set) == [kind |-> "array", items |-> set]
\* The other texts the key can hold: the JSON of null, of a value new Set
\* cannot iterate (a number, true, an object), of a string, whose items are
\* its characters, and of an array with an element that is no identifier.
JsonNull == [kind |-> "null", items |-> {}]
JsonNumber == [kind |-> "number", items |-> {}]
JsonString(chars) == [kind |-> "string", items |-> chars]
NotAnId == "7 (a number)"
\* saved ? new Set(JSON.parse(saved)) : new Set(), inside try/catch: a missing
\* key takes the else branch, JSON.parse throws on text that is not JSON, new
\* Set(null) is empty, new Set throws on a value it cannot iterate, and it
\* takes the characters of a string and the elements of an array.
LoadSet(saved) ==
  CASE saved.kind = "missing" -> {}
    [] saved.kind = "corrupt" -> {}
    [] saved.kind = "null" -> {}
    [] saved.kind = "number" -> {}
    [] OTHER -> saved.items

\* -------------------------------------------------------------- ordering
\* new Date(s).getTime(): a number of days here, NaN for an invalid date.
NaN == [nan |-> TRUE, v |-> 0]
Num(n) == [nan |-> FALSE, v |-> n]
getTime(s) == IF DayNumber(s) < 0 THEN NaN ELSE Num(DayNumber(s))

\* Collation keys of the identifiers: a.localeCompare(b) compares them
\* character by character.
Chars(id) ==
  CASE id = "1" -> <<1>>
    [] id = "2" -> <<2>>
    [] id = "10" -> <<1, 0>>
    [] id = "001592" -> <<0, 0, 1, 5, 9, 2>>
    [] id = "A" -> <<11>>
    [] id = "B" -> <<12>>
    [] id = "C" -> <<13>>
    [] id = "D" -> <<14>>
    [] OTHER -> <<30>>

RECURSIVE LexCompare(_, _)
LexCompare(a, b) ==
  IF a = <<>> /\ b = <<>> THEN 0
  ELSE IF a = <<>> THEN -1
  ELSE IF b = <<>> THEN 1
  ELSE IF Head(a) < Head(b) THEN -1
  ELSE IF Head(a) > Head(b) THEN 1
  ELSE LexCompare(Tail(a), Tail(b))

localeCompare(a, b) == LexCompare(Chars(a), Chars(b))

\* A classification by the status alone.
isDocProcessedByStatus(doc, processed) == doc.status = "For signing"

isDocProcessed(doc, processed) == doc.id \in processed \/ doc.status = "For signing"

\* The comparator handed to sort (lines 307-325).  dateA !== dateB is true
\* when either is NaN, and the difference is then NaN.
compareDocs(a, b, processed) ==
  LET aProcessed == isDocProcessed(a, processed)
      bProcessed == isDocProcessed(b, processed)
      dateA == getTime(a.date)
      dateB == getTime(b.date)
  IN  IF aProcessed /\ ~bProcessed THEN Num(1)
      ELSE IF ~aProcessed /\ bProcessed THEN Num(-1)
      ELSE IF dateA.nan \/ dateB.nan THEN NaN
      ELSE IF dateA.v # dateB.v THEN Num(dateA.v - dateB.v)
      ELSE Num(localeCompare(a.id, b.id))

\* Array.prototype.sort reads a comparator result of NaN as +0.
SortOrder(a, b, processed) ==
  LET c == compareDocs(a, b, processed) IN IF c.nan THEN 0 ELSE c.v

RECURSIVE RunEnd(_, _, _, _)
\* CountAndMakeRun's loop: the index (0-based, exclusive) where the run that
\* starts the array ends.
RunEnd(a, idx, isDescending, processed) ==
  IF idx >= Len(a) THEN idx
  ELSE LET order == SortOrder(a[idx + 1], a[idx], processed)
       IN  IF (isDescending /\ order >= 0) \/ (~isDescending /\ order < 0) THEN idx
           ELSE RunEnd(a, idx + 1, isDescending, processed)

Reverse(s) == [i \in 1..Len(s) |-> s[Len(s) + 1 - i]]

RECURSIVE BinarySearch(_, _, _, _, _)
\* The while loop of BinaryInsertionSort: left and right are 0-based.
BinarySearch(a, pivot, left, right, processed) ==
  IF left >= right THEN left
  ELSE LET mid == left + ((right - left) \div 2)
           order == SortOrder(pivot, a[mid + 1], processed)
       IN  IF order < 0 THEN BinarySearch(a, pivot, left, mid, processed)
           ELSE BinarySearch(a, pivot, mid + 1, right, processed)

RECURSIVE BinaryInsertionSort(_, _, _)
\* Inserts a[start], a[start+1], ... (0-based) into the sorted prefix.
BinaryInsertionSort(a, start, processed) ==
  IF start >= Len(a) THEN a
  ELSE LET pivot == a[start + 1]
           left == BinarySearch(a, pivot, 0, start, processed)
           moved == SubSeq(a, 1, left) \o <<pivot>> \o SubSeq(a, left + 1, start)
                      \o SubSeq(a, start + 2, Len(a))
       IN  BinaryInsertionSort(moved, start + 1, processed)

\* [...documents].sort(comparator) as the engine sorts an array shorter than a
\* minimum run: the run that starts the array is found (and reversed when
\* it descends), the rest is inserted by binary search.
ArraySort(a, processed) ==
  IF Len(a) < 2 THEN a
  ELSE LET isDescending == SortOrder(a[2], a[1], processed) < 0
           runLength == RunEnd(a, 2, isDescending, processed)
           run == IF isDescending
                  THEN Reverse(SubSeq(a, 1, runLength)) \o SubSeq(a, runLength + 1, Len(a))
                  ELSE a
       IN  BinaryInsertionSort(run, runLength, processed)

sidebarDocuments(docs, processed) == ArraySort(docs, processed)

\* ------------------------------------------------------------ diff engine
\* prevDocsMap.get(id): the Map built from the array keeps the last entry of
\* an id.
PrevGet(currentDocs, id) ==
  LET idxs == {i \in 1..Len(currentDocs) : currentDocs[i].id = id}
  IN  currentDocs[CHOOSE i \in idxs : \A j \in idxs : j <= i]

PrevHas(currentDocs, id) == \E i \in 1..Len(currentDocs) : currentDocs[i].id = id

IsNewItem(currentDocs, d) == ~PrevHas(currentDocs, d.id)

\* A filter that does not compare the statuses.
IsStatusChangeAlways(currentDocs, d) == PrevHas(currentDocs, d.id)

IsStatusChange(currentDocs, d) ==
  PrevHas(currentDocs, d.id) /\ PrevGet(currentDocs, d.id).status # d.status

\* A filter that also reports the records the fetch no longer has.
newItemsOrGone(currentDocs, newDocs) ==
  SelectSeq(newDocs, LAMBDA d : ~PrevHas(currentDocs, d.id))
    \o SelectSeq(currentDocs, LAMBDA d : ~PrevHas(newDocs, d.id))

RECURSIVE newItemsOf(_, _)
\* newDocs.filter(d => !prevDocsMap.has(d.id))
newItemsOf(currentDocs, newDocs) ==
  IF newDocs = <<>> THEN <<>>
  ELSE (IF IsNewItem(currentDocs, Head(newDocs)) THEN <<Head(newDocs)>> ELSE <<>>)
         \o newItemsOf(currentDocs, Tail(newDocs))

RECURSIVE statusChangesOf(_, _)
\* newDocs.filter(d => { prev = get(d.id); return prev && prev.status !== d.status })
statusChangesOf(currentDocs, newDocs) ==
  IF newDocs = <<>> THEN <<>>
  ELSE (IF IsStatusChange(currentDocs, Head(newDocs)) THEN <<Head(newDocs)>> ELSE <<>>)
         \o statusChangesOf(currentDocs, Tail(newDocs))

\* ------------------------------------------------------------------ state
VARIABLES
  remote,            \* the requisitions table: id -> status column, or Absent
  events,            \* changes other clients have made to the table
  outages,           \* fetches that found the database unreachable
  clicks,            \* clicks the user has made
  now,               \* elapsed timer intervals (the clock new Date() reads)
  permission,        \* Notification.permission, "absent" without the API
  loadCall,          \* the fetch of loadData: pc, the answer in flight and
                     \* whether the primary connection failed for it
  pollCall,          \* the fetch of checkForNewRecords: the same, and isSilent
  mutCalls,          \* updateRequisitionStatus calls awaited by print/export
  isSyncingRef,      \* isSyncingRef.current
  isSyncing,         \* useState isSyncing
  documents,         \* useState documents
  docsRef,           \* docsRef.current, the documents of the last render
  selectedDocId,     \* useState selectedDocId
  isLoading,         \* useState isLoading
  error,             \* useState error
  lastSync,          \* useState lastSync
  processedDocIds,   \* useState processedDocIds
  newDocIds,         \* useState newDocIds
  lsProcessed,       \* localStorage 'sunlight_processed_docs'
  lsNew,             \* localStorage 'sunlight_new_docs'
  isPrintModalOpen,  \* useState isPrintModalOpen
  hasEntered,        \* useState hasEntered: the splash screen was left
  view,              \* the state the last render closed over
  sorted,            \* sidebarDocuments of the last render
  baselined,         \* history: some fetch has been applied
  applied,           \* history: the list the last applied fetch set
  reportedArrived,   \* history: ids a dispatch reported as arrived since
                     \* they last entered the table
  signed,            \* history: ids updateStatusToSigning has run for
  lastOp             \* history: the handler that ran last and what it emitted

vars == <<remote, events, outages, clicks, now, permission, loadCall, pollCall, mutCalls,
          isSyncingRef, isSyncing, documents, docsRef, selectedDocId, isLoading,
          error, lastSync, processedDocIds, newDocIds, lsProcessed, lsNew,
          isPrintModalOpen, hasEntered, view, sorted, baselined, applied, reportedArrived,
          signed, lastOp>>

Permissions == {"absent", "default", "denied", "granted"}
NoRecordsError == "No records found in the database."

\* What a render closes over.
ViewOf(syncing, loading, err, selected) ==
  [isSyncing |-> syncing, isLoading |-> loading, error |-> err, selectedDocId |-> selected]

\* The record of a handler run.
Quiet == [sound |-> 0, toasts |-> <<>>, desk |-> <<>>, newItems |-> <<>>,
          statusChanges |-> <<>>, prev |-> <<>>, next |-> <<>>, threw |-> FALSE]
Op(name, silent, id, fetch, out) ==
  [op |-> name, silent |-> silent, id |-> id, fetch |-> fetch, effect |-> "none"] @@ out

\* A step that is no handler of interest emitted nothing.
Idle == Op("idle", TRUE, NULL, FALSE, Quiet)

\* Tables and stored values the run may start from.
InitialRemotes == {[i \in DbIds |-> Absent],
                   [i \in DbIds |-> IF i = "1" THEN "Pending" ELSE Absent]}
InitialStores == {<<Missing, Serialize({"1"})>>, <<Serialize({"1"}), Corrupt>>}
InitialPermissions == {"absent", "default", "granted"}

\* The state after the first render and its effects: loadData has issued its
\* fetch, the tag sets are loaded and written back, the interval is armed.
Init ==
  /\ remote \in InitialRemotes
  /\ events = 0
  /\ outages = 0
  /\ clicks = 0
  /\ now = 0
  /\ permission \in InitialPermissions
  /\ loadCall = [pc |-> "sent", failed |-> FALSE, resp |-> <<>>]
  /\ pollCall = [pc |-> "idle", silent |-> TRUE, failed |-> FALSE, resp |-> <<>>]
  /\ mutCalls = {}
  /\ isSyncingRef = FALSE
  /\ isSyncing = FALSE
  /\ documents = <<>>
  /\ docsRef = <<>>
  /\ selectedDocId = NULL
  /\ isLoading = TRUE
  /\ error = NULL
  /\ lastSync = 0
  /\ \E saved \in InitialStores :
       /\ processedDocIds = LoadSet(saved[1])
       /\ newDocIds = LoadSet(saved[2])
       /\ lsProcessed = Serialize(LoadSet(saved[1]))
       /\ lsNew = Serialize(LoadSet(saved[2]))
  /\ isPrintModalOpen = FALSE
  /\ hasEntered = FALSE
  /\ view = ViewOf(FALSE, TRUE, NULL, NULL)
  /\ sorted = <<>>
  /\ baselined = FALSE
  /\ applied = <<>>
  /\ reportedArrived = {}
  /\ signed = {}
  /\ lastOp = Op("mount", TRUE, NULL, TRUE, Quiet)

\* Effects that store both sets under both keys.
CommitSharedKey(docs, processed, unseen, syncing, loading, err, selected) ==
  /\ docsRef' = docs
  /\ lsProcessed' = Serialize(processed \cup unseen)
  /\ lsNew' = Serialize(processed \cup unseen)
  /\ view' = ViewOf(syncing, loading, err, selected)
  /\ sorted' = sidebarDocuments(docs, processed)

\* A render with its effects: the closures, docsRef and both localStorage
\* keys take the values of the state rendered.
Commit(docs, processed, unseen, syncing, loading, err, selected) ==
  /\ docsRef' = docs
  /\ lsProcessed' = Serialize(processed)
  /\ lsNew' = Serialize(unseen)
  /\ view' = ViewOf(syncing, loading, err, selected)
  /\ sorted' = sidebarDocuments(docs, processed)

RenderPending ==
  \/ docsRef # documents
  \/ lsProcessed # Serialize(processedDocIds)
  \/ lsNew # Serialize(newDocIds)
  \/ view # ViewOf(isSyncing, isLoading, error, selectedDocId)

\* The render React schedules after state was set outside a click handler.
Render ==
  /\ RenderPending
  /\ Commit(documents, processedDocIds, newDocIds, isSyncing, isLoading, error, selectedDocId)
  /\ lastOp' = Idle
  /\ UNCHANGED <<signed, hasEntered, remote, events, outages, clicks, now, permission, loadCall, pollCall, mutCalls,
                 isSyncingRef, isSyncing, documents, selectedDocId, isLoading, error,
                 lastSync, processedDocIds, newDocIds, isPrintModalOpen,
                 baselined, applied, reportedArrived>>

\* ------------------------------------------------------------ environment
\* Another client inserts, updates or deletes a row.
RemoteChange ==
  /\ events + outages < MaxEnvEvents
  /\ \E i \in DbIds, v \in EnvStatuses \cup {Absent} :
       /\ remote[i] # v
       /\ remote' = [remote EXCEPT ![i] = v]
       /\ reportedArrived' = IF v = Absent THEN reportedArrived \ {i} ELSE reportedArrived
  /\ events' = events + 1
  /\ lastOp' = Idle
  /\ UNCHANGED <<signed, hasEntered, outages, clicks, now, permission, loadCall, pollCall,
                 mutCalls, isSyncingRef, isSyncing,
                 documents, docsRef, selectedDocId, isLoading, error, lastSync,
                 processedDocIds, newDocIds, lsProcessed, lsNew, isPrintModalOpen, view,
                 sorted, baselined, applied>>

\* The record source evaluates the fetch of loadData: the answer is fixed
\* here and reaches loadData at LoadContinue.  A round trip takes longer
\* than a scheduled render, so the query runs when no render is pending.
LoadFetchSettles ==
  /\ loadCall.pc = "sent"
  /\ ~RenderPending
  /\ \E reachable \in BOOLEAN : \E docs \in fetchDatabaseRecords(remote, reachable) :
       /\ reachable \/ events + outages < MaxEnvEvents
       /\ outages' = IF reachable THEN outages ELSE outages + 1
       /\ loadCall' = [pc |-> "replied", failed |-> ~reachable, resp |-> docs]
  /\ lastOp' = Idle
  /\ UNCHANGED <<signed, hasEntered, remote, events, clicks, now, permission, pollCall, mutCalls, isSyncingRef,
                 isSyncing, documents, docsRef, selectedDocId, isLoading, error, lastSync,
                 processedDocIds, newDocIds, lsProcessed, lsNew, isPrintModalOpen, view,
                 sorted, baselined, applied, reportedArrived>>

\* The record source evaluates the fetch of checkForNewRecords; the answer
\* reaches the poll at PollContinue.
PollFetchSettles ==
  /\ pollCall.pc = "sent"
  /\ ~RenderPending
  /\ \E reachable \in BOOLEAN : \E docs \in fetchDatabaseRecords(remote, reachable) :
       /\ reachable \/ events + outages < MaxEnvEvents
       /\ outages' = IF reachable THEN outages ELSE outages + 1
       /\ pollCall' = [pollCall EXCEPT !.pc = "replied", !.failed = ~reachable, !.resp = docs]
  /\ lastOp' = Idle
  /\ UNCHANGED <<signed, hasEntered, remote, events, clicks, now, permission, loadCall, mutCalls, isSyncingRef,
                 isSyncing, documents, docsRef, selectedDocId, isLoading, error, lastSync,
                 processedDocIds, newDocIds, lsProcessed, lsNew, isPrintModalOpen, view,
                 sorted, baselined, applied, reportedArrived>>

\* History kept with the calls awaited: a fetch was applied, and replaced
\* the snapshot, while the call was in flight.
Refetched(calls) == {[c EXCEPT !.refetched = TRUE] : c \in calls}

\* ----------------------------------------------------------------- loadData
\* selectedDocId as the closure of the mount effect holds it.
MountSelectedDocId == NULL

\* loadData after its await (lines 128-140).
LoadContinue ==
  /\ loadCall.pc = "replied"
  /\ LET docs == loadCall.resp IN
       /\ documents' = docs
       /\ lastSync' = now
       /\ selectedDocId' = IF Len(docs) > 0 /\ MountSelectedDocId = NULL
                             THEN docs[1].id ELSE selectedDocId
       /\ error' = IF ~(Len(docs) > 0 /\ MountSelectedDocId = NULL) /\ Len(docs) = 0
                     THEN NoRecordsError ELSE error
  /\ isLoading' = FALSE
  /\ loadCall' = [pc |-> "done", failed |-> FALSE, resp |-> <<>>]
  /\ baselined' = TRUE
  /\ applied' = loadCall.resp
  /\ lastOp' = Op("load", TRUE, NULL, FALSE, [Quiet EXCEPT !.next = loadCall.resp])
  /\ mutCalls' = Refetched(mutCalls)
  /\ UNCHANGED <<signed, hasEntered, remote, events, outages, clicks, now, permission, pollCall, isSyncingRef,
                 isSyncing, docsRef, processedDocIds, newDocIds, lsProcessed, lsNew,
                 isPrintModalOpen, view, sorted, reportedArrived>>

\* ------------------------------------------------------- checkForNewRecords
\* The call without its guard.
checkForNewRecordsUnguarded(isSilent, name) ==
  /\ isSyncingRef' = TRUE
  /\ isSyncing' = TRUE
  /\ pollCall' = [pc |-> "sent", silent |-> isSilent, failed |-> FALSE, resp |-> <<>>]
  /\ lastOp' = Op(name, isSilent, NULL, TRUE, Quiet)

\* Lines 144-148: the guard, and the fetch being issued.
checkForNewRecords(isSilent, name) ==
  IF isSyncingRef
  THEN /\ lastOp' = Op(name, isSilent, NULL, FALSE, Quiet)
       /\ UNCHANGED <<pollCall, isSyncingRef, isSyncing>>
  ELSE /\ isSyncingRef' = TRUE
       /\ isSyncing' = TRUE
       /\ pollCall' = [pc |-> "sent", silent |-> isSilent, failed |-> FALSE, resp |-> <<>>]
       /\ lastOp' = Op(name, isSilent, NULL, TRUE, Quiet)

\* setInterval(() => checkForNewRecords(true), 30000)
TimerTick ==
  /\ now + clicks < MaxInputs
  /\ now' = now + 1
  /\ checkForNewRecords(TRUE, "timer")
  /\ UNCHANGED <<signed, hasEntered, remote, events, outages, clicks, permission, loadCall, mutCalls, documents, docsRef,
                 selectedDocId, isLoading, error, lastSync, processedDocIds, newDocIds,
                 lsProcessed, lsNew, isPrintModalOpen, view, sorted, baselined, applied,
                 reportedArrived>>

\* The Sync Now button (disabled={isSyncing}); the print dialog covers it.
\* A dropped call sets no state, so nothing is rendered.
SyncNow ==
  /\ now + clicks < MaxInputs
  /\ clicks' = clicks + 1
  /\ hasEntered
  /\ ~view.isSyncing
  /\ ~isPrintModalOpen
  /\ checkForNewRecords(FALSE, "syncNow")
  /\ IF isSyncingRef
     THEN UNCHANGED <<docsRef, lsProcessed, lsNew, view, sorted>>
     ELSE Commit(documents, processedDocIds, newDocIds, TRUE, isLoading, error, selectedDocId)
  /\ UNCHANGED <<signed, hasEntered, remote, events, outages, now, permission, loadCall, mutCalls, documents,
                 selectedDocId, isLoading, error, lastSync, processedDocIds, newDocIds,
                 isPrintModalOpen, baselined, applied, reportedArrived>>

\* What the dispatch shows.
Toast(kind, id, count, status) == [kind |-> kind, id |-> id, count |-> count, status |-> status]

\* An arrival toast that always gives the count.
ArrivalToastCount(newItems) ==
  Toast("new requisitions received", "", Len(newItems), "")

ArrivalToast(newItems) ==
  IF Len(newItems) = 1 THEN Toast("New Requisition received", newItems[1].id, 1, "")
  ELSE Toast("new requisitions received", "", Len(newItems), "")

ArrivalNotification(newItems) ==
  IF Len(newItems) = 1 THEN Toast("New Requisition", newItems[1].id, 1, "")
  ELSE Toast("New Requisitions", "", Len(newItems), "")

RECURSIVE StatusMessages(_, _)
\* statusChanges.forEach(doc => ...)
StatusMessages(kind, statusChanges) ==
  IF statusChanges = <<>> THEN <<>>
  ELSE <<Toast(kind, Head(statusChanges).id, 1, Head(statusChanges).status)>>
         \o StatusMessages(kind, Tail(statusChanges))

UpToDateToast == Toast("Database is up to date", "", 0, "")
SyncFailedToast == Toast("Sync failed. Check connection.", "", 0, "")

\* A diff that reports once for every record.
SoundPerItem(newItems, statusChanges) == Len(newItems) + Len(statusChanges)

\* playNotificationSound() is called once inside the if of line 166.
SoundCount(newItems, statusChanges) ==
  IF Len(newItems) > 0 \/ Len(statusChanges) > 0 THEN 1 ELSE 0

\* A dispatch that notifies the desktop unless permission was denied.
DispatchUnlessDenied(newItems, statusChanges, isSilent, perm) ==
  LET nonEmpty == Len(newItems) > 0 \/ Len(statusChanges) > 0
      threw == nonEmpty /\ perm = "absent"
  IN  [sound |-> SoundCount(newItems, statusChanges),
       threw |-> threw,
       desk |-> IF nonEmpty /\ perm \in {"granted", "default"}
                THEN (IF Len(newItems) > 0 THEN <<ArrivalNotification(newItems)>> ELSE <<>>)
                       \o StatusMessages("Status Updated", statusChanges)
                ELSE <<>>,
       toasts |-> IF threw THEN (IF ~isSilent THEN <<SyncFailedToast>> ELSE <<>>)
                  ELSE IF nonEmpty
                  THEN (IF Len(newItems) > 0 THEN <<ArrivalToast(newItems)>> ELSE <<>>)
                         \o StatusMessages("is now", statusChanges)
                  ELSE IF ~isSilent THEN <<UpToDateToast>> ELSE <<>>]

\* A dispatch that shows the up-to-date toast for a timer poll too.
DispatchNeverSilent(newItems, statusChanges, isSilent, perm) ==
  LET nonEmpty == Len(newItems) > 0 \/ Len(statusChanges) > 0
      threw == nonEmpty /\ perm = "absent"
  IN  [sound |-> SoundCount(newItems, statusChanges),
       threw |-> threw,
       desk |-> IF nonEmpty /\ perm = "granted"
                THEN (IF Len(newItems) > 0 THEN <<ArrivalNotification(newItems)>> ELSE <<>>)
                       \o StatusMessages("Status Updated", statusChanges)
                ELSE <<>>,
       toasts |-> IF threw THEN (IF ~isSilent THEN <<SyncFailedToast>> ELSE <<>>)
                  ELSE IF nonEmpty
                  THEN (IF Len(newItems) > 0 THEN <<ArrivalToast(newItems)>> ELSE <<>>)
                         \o StatusMessages("is now", statusChanges)
                  ELSE <<UpToDateToast>>]

\* Lines 165-216 for a diff, without the API (Notification.permission
\* throws a ReferenceError, caught at line 217) and with it.
Dispatch(newItems, statusChanges, isSilent, perm) ==
  LET nonEmpty == Len(newItems) > 0 \/ Len(statusChanges) > 0
      threw == nonEmpty /\ perm = "absent"
  IN  [sound |-> SoundCount(newItems, statusChanges),
       threw |-> threw,
       desk |-> IF nonEmpty /\ perm = "granted"
                THEN (IF Len(newItems) > 0 THEN <<ArrivalNotification(newItems)>> ELSE <<>>)
                       \o StatusMessages("Status Updated", statusChanges)
                ELSE <<>>,
       toasts |-> IF threw THEN (IF ~isSilent THEN <<SyncFailedToast>> ELSE <<>>)
                  ELSE IF nonEmpty
                  THEN (IF Len(newItems) > 0 THEN <<ArrivalToast(newItems)>> ELSE <<>>)
                         \o StatusMessages("is now", statusChanges)
                  ELSE IF ~isSilent THEN <<UpToDateToast>> ELSE <<>>]

\* The guard released at the end of the try block instead.
finallyGuardSkipped(threw) == threw

\* The finally block (lines 220-223) runs however the try block ended.
finallyGuard(threw) == FALSE

\* A poll that prunes the processed set to the records fetched.
PollContinuePruning ==
  /\ pollCall.pc = "replied"
  /\ LET newDocs == pollCall.resp
         currentDocs == docsRef
         newItems == newItemsOf(currentDocs, newDocs)
         statusChanges == statusChangesOf(currentDocs, newDocs)
         d == Dispatch(newItems, statusChanges, pollCall.silent, permission)
     IN  /\ lastSync' = now
         /\ documents' = newDocs
         /\ processedDocIds' = processedDocIds \cap IdsOf(newDocs)
         /\ newDocIds' = IF Len(newItems) > 0 THEN newDocIds \cup IdsOf(newItems) ELSE newDocIds
         /\ isSyncing' = finallyGuard(d.threw)
         /\ isSyncingRef' = finallyGuard(d.threw)
         /\ reportedArrived' = reportedArrived \cup IdsOf(newItems)
         /\ lastOp' = Op("poll", pollCall.silent, NULL, FALSE,
                          [sound |-> d.sound, toasts |-> d.toasts, desk |-> d.desk,
                           newItems |-> newItems, statusChanges |-> statusChanges,
                           prev |-> currentDocs, next |-> newDocs, threw |-> d.threw])
  /\ pollCall' = [pc |-> "idle", silent |-> TRUE, failed |-> FALSE, resp |-> <<>>]
  /\ baselined' = TRUE
  /\ applied' = pollCall.resp
  /\ mutCalls' = Refetched(mutCalls)
  /\ UNCHANGED <<signed, hasEntered, remote, events, outages, clicks, now, permission, loadCall,
                 docsRef, selectedDocId, isLoading, error, lsProcessed,
                 lsNew, isPrintModalOpen, view, sorted>>

\* A poll that keeps the records the fetch no longer has.
PollContinueMerging ==
  /\ pollCall.pc = "replied"
  /\ LET newDocs == pollCall.resp
         currentDocs == docsRef
         newItems == newItemsOf(currentDocs, newDocs)
         statusChanges == statusChangesOf(currentDocs, newDocs)
         d == Dispatch(newItems, statusChanges, pollCall.silent, permission)
     IN  /\ lastSync' = now
         /\ documents' = newDocs \o SelectSeq(currentDocs, LAMBDA old : ~PrevHas(newDocs, old.id))
         /\ newDocIds' = IF Len(newItems) > 0 THEN newDocIds \cup IdsOf(newItems) ELSE newDocIds
         /\ isSyncing' = finallyGuard(d.threw)
         /\ isSyncingRef' = finallyGuard(d.threw)
         /\ reportedArrived' = reportedArrived \cup IdsOf(newItems)
         /\ lastOp' = Op("poll", pollCall.silent, NULL, FALSE,
                          [sound |-> d.sound, toasts |-> d.toasts, desk |-> d.desk,
                           newItems |-> newItems, statusChanges |-> statusChanges,
                           prev |-> currentDocs, next |-> newDocs, threw |-> d.threw])
  /\ pollCall' = [pc |-> "idle", silent |-> TRUE, failed |-> FALSE, resp |-> <<>>]
  /\ baselined' = TRUE
  /\ applied' = pollCall.resp
  /\ mutCalls' = Refetched(mutCalls)
  /\ UNCHANGED <<signed, hasEntered, remote, events, outages, clicks, now, permission, loadCall,
                 docsRef, selectedDocId, isLoading, error, processedDocIds, lsProcessed,
                 lsNew, isPrintModalOpen, view, sorted>>

\* checkForNewRecords after its await (lines 148-223).
PollContinue ==
  /\ pollCall.pc = "replied"
  /\ LET newDocs == pollCall.resp
         currentDocs == docsRef
         newItems == newItemsOf(currentDocs, newDocs)
         statusChanges == statusChangesOf(currentDocs, newDocs)
         d == Dispatch(newItems, statusChanges, pollCall.silent, permission)
     IN  /\ lastSync' = now
         /\ documents' = newDocs
         /\ newDocIds' = IF Len(newItems) > 0 THEN newDocIds \cup IdsOf(newItems) ELSE newDocIds
         /\ isSyncing' = finallyGuard(d.threw)
         /\ isSyncingRef' = finallyGuard(d.threw)
         /\ reportedArrived' = reportedArrived \cup IdsOf(newItems)
         /\ lastOp' = Op("poll", pollCall.silent, NULL, FALSE,
                          [sound |-> d.sound, toasts |-> d.toasts, desk |-> d.desk,
                           newItems |-> newItems, statusChanges |-> statusChanges,
                           prev |-> currentDocs, next |-> newDocs, threw |-> d.threw])
  /\ pollCall' = [pc |-> "idle", silent |-> TRUE, failed |-> FALSE, resp |-> <<>>]
  /\ baselined' = TRUE
  /\ applied' = pollCall.resp
  /\ mutCalls' = Refetched(mutCalls)
  /\ UNCHANGED <<signed, hasEntered, remote, events, outages, clicks, now, permission, loadCall,
                 docsRef, selectedDocId, isLoading, error, processedDocIds, lsProcessed,
                 lsNew, isPrintModalOpen, view, sorted>>

\* ------------------------------------------------------------ user actions
\* The button of the splash screen; nothing else is shown before it.
EnterApp ==
  /\ ~hasEntered
  /\ hasEntered' = TRUE
  /\ Commit(documents, processedDocIds, newDocIds, isSyncing, isLoading, error, selectedDocId)
  /\ lastOp' = Idle
  /\ UNCHANGED <<signed, remote, events, outages, clicks, now, permission, loadCall, pollCall,
                 mutCalls, isSyncingRef, isSyncing, documents, selectedDocId, isLoading,
                 error, lastSync, processedDocIds, newDocIds, isPrintModalOpen, baselined, applied,
                 reportedArrived>>

\* The sidebar lists the documents of the last render unless it shows the
\* loading or the error panel.
SidebarShown == hasEntered /\ ~view.isLoading /\ view.error = NULL /\ ~isPrintModalOpen

\* An onClick that writes the set its render closed over, less the id.
OpenDocumentFromClosure ==
  /\ now + clicks < MaxInputs
  /\ clicks' = clicks + 1
  /\ SidebarShown
  /\ \E i \in 1..Len(docsRef) :
       LET id == docsRef[i].id
           unseen == IF id \in LoadSet(lsNew) THEN LoadSet(lsNew) \ {id} ELSE newDocIds
       IN  /\ selectedDocId' = id
           /\ newDocIds' = unseen
           /\ Commit(documents, processedDocIds, unseen, isSyncing, isLoading, error, id)
           /\ lastOp' = Idle
  /\ UNCHANGED <<signed, hasEntered, remote, events, outages, now, permission, loadCall, pollCall, mutCalls,
                 isSyncingRef, isSyncing, documents, isLoading, error, lastSync,
                 processedDocIds, isPrintModalOpen, baselined, applied, reportedArrived>>

\* onClick of a sidebar entry (lines 642-653).
OpenDocument ==
  /\ now + clicks < MaxInputs
  /\ clicks' = clicks + 1
  /\ SidebarShown
  /\ \E i \in 1..Len(docsRef) :
       LET id == docsRef[i].id
           unseen == IF id \in LoadSet(lsNew) THEN newDocIds \ {id} ELSE newDocIds
       IN  /\ selectedDocId' = id
           /\ newDocIds' = unseen
           /\ Commit(documents, processedDocIds, unseen, isSyncing, isLoading, error, id)
           /\ lastOp' = Idle
  /\ UNCHANGED <<signed, hasEntered, remote, events, outages, now, permission, loadCall, pollCall, mutCalls,
                 isSyncingRef, isSyncing, documents, isLoading, error, lastSync,
                 processedDocIds, isPrintModalOpen, baselined, applied, reportedArrived>>

\* The button without disabled={!selectedDoc}.
handlePrintRequestUngated ==
  /\ now + clicks < MaxInputs
  /\ clicks' = clicks + 1
  /\ hasEntered
  /\ ~isPrintModalOpen
  /\ isPrintModalOpen' = TRUE
  /\ Commit(documents, processedDocIds, newDocIds, isSyncing, isLoading, error, selectedDocId)
  /\ lastOp' = Idle
  /\ UNCHANGED <<signed, hasEntered, remote, events, outages, now, permission, loadCall, pollCall, mutCalls,
                 isSyncingRef, isSyncing, documents, selectedDocId, isLoading, error,
                 lastSync, processedDocIds, newDocIds, baselined, applied, reportedArrived>>

\* The Print Document button (disabled={!selectedDoc}).
handlePrintRequest ==
  /\ now + clicks < MaxInputs
  /\ clicks' = clicks + 1
  /\ hasEntered
  /\ ~isPrintModalOpen
  /\ \E i \in 1..Len(docsRef) : docsRef[i].id = view.selectedDocId
  /\ isPrintModalOpen' = TRUE
  /\ Commit(documents, processedDocIds, newDocIds, isSyncing, isLoading, error, selectedDocId)
  /\ lastOp' = Idle
  /\ UNCHANGED <<signed, hasEntered, remote, events, outages, now, permission, loadCall, pollCall, mutCalls,
                 isSyncingRef, isSyncing, documents, selectedDocId, isLoading, error,
                 lastSync, processedDocIds, newDocIds, baselined, applied, reportedArrived>>

\* Cancel or X of the print dialog.
ClosePrintModal ==
  /\ now + clicks < MaxInputs
  /\ clicks' = clicks + 1
  /\ isPrintModalOpen
  /\ isPrintModalOpen' = FALSE
  /\ Commit(documents, processedDocIds, newDocIds, isSyncing, isLoading, error, selectedDocId)
  /\ lastOp' = Idle
  /\ UNCHANGED <<signed, hasEntered, remote, events, outages, now, permission, loadCall, pollCall, mutCalls,
                 isSyncingRef, isSyncing, documents, selectedDocId, isLoading, error,
                 lastSync, processedDocIds, newDocIds, baselined, applied, reportedArrived>>

RECURSIVE MarkForSigningToggle(_, _)
\* A transition that flips the status back when it is already set.
MarkForSigningToggle(prevDocs, id) ==
  IF prevDocs = <<>> THEN <<>>
  ELSE <<IF Head(prevDocs).id = id
         THEN [Head(prevDocs) EXCEPT !.status =
                 IF Head(prevDocs).status = "For signing" THEN "Pending" ELSE "For signing"]
         ELSE Head(prevDocs)>> \o MarkForSigningToggle(Tail(prevDocs), id)

RECURSIVE MarkForSigningAll(_, _)
\* A map without the test of the id.
MarkForSigningAll(prevDocs, id) ==
  IF prevDocs = <<>> THEN <<>>
  ELSE <<[Head(prevDocs) EXCEPT !.status = "For signing"]>>
         \o MarkForSigningAll(Tail(prevDocs), id)

RECURSIVE MarkForSigning(_, _)
\* prevDocs.map(d => d.id === id ? { ...d, status: 'For signing' } : d)
MarkForSigning(prevDocs, id) ==
  IF prevDocs = <<>> THEN <<>>
  ELSE <<IF Head(prevDocs).id = id
         THEN [Head(prevDocs) EXCEPT !.status = "For signing"]
         ELSE Head(prevDocs)>> \o MarkForSigning(Tail(prevDocs), id)

\* A set mutated in place: React sees the same Set and keeps the state.
AddProcessedInPlace(prev, id) == prev

\* newSet.add(id)
AddProcessed(prev, id) == prev \cup {id}

\* updateStatusToSigning up to its await (lines 333-346), called from the
\* click handler `trigger`: both local updates, then the remote call.
updateStatusToSigning(id, trigger) ==
  /\ documents' = MarkForSigning(documents, id)
  /\ processedDocIds' = AddProcessed(processedDocIds, id)
  /\ mutCalls' = mutCalls \cup {[id |-> id, trigger |-> trigger, refetched |-> FALSE]}
  /\ signed' = signed \cup {id}
  /\ Commit(MarkForSigning(documents, id), AddProcessed(processedDocIds, id), newDocIds,
            isSyncing, isLoading, error, selectedDocId)
  /\ lastOp' = Op("sign", TRUE, id, FALSE, Quiet)

\* Print Now and Export PDF of the print dialog, up to the await: with an id
\* selected the transition runs first and the side effect waits for it
\* (MutateSettles); without one the side effect runs at once, window.print()
\* or the export of the preview.
PrintOrExport(trigger) ==
  /\ now + clicks < MaxInputs
  /\ clicks' = clicks + 1
  /\ isPrintModalOpen
  /\ Cardinality(mutCalls) < MaxMutCalls
  /\ IF view.selectedDocId # NULL
     THEN updateStatusToSigning(view.selectedDocId, trigger)
     ELSE /\ lastOp' = Op(trigger, TRUE, NULL, FALSE, Quiet)
          /\ UNCHANGED <<signed, documents, processedDocIds, mutCalls, docsRef, lsProcessed, lsNew,
                         view, sorted>>
  /\ UNCHANGED <<hasEntered, remote, events, outages, now, permission, loadCall, pollCall, isSyncingRef,
                 isSyncing, selectedDocId, isLoading, error, lastSync, newDocIds,
                 isPrintModalOpen, baselined, applied, reportedArrived>>

executePrint == PrintOrExport("print")
handleExportPdf == PrintOrExport("export")

\* updateRequisitionStatus: the UPDATE is applied, or it fails and the
\* failure is logged; either way the call resolves and the caller goes on
\* to window.print() or to the PDF export.
updateRequisitionStatus(tbl, id, ok) ==
  IF ok /\ id \in DOMAIN tbl /\ tbl[id] # Absent
  THEN [tbl EXCEPT ![id] = "For signing"] ELSE tbl

\* The preview is in the page when the last render had a selected record
\* to show (lines 783-793; PrintableDocument carries id="printable-area").
ElementPresent ==
  ~view.isLoading /\ view.selectedDocId # NULL /\ PrevHas(docsRef, view.selectedDocId)

\* What the handler does after its await: window.print() (line 356), or the
\* export, which returns early without the element (line 365) or without
\* the generator, a script still loading (lines 368-371), and saves the
\* file otherwise (line 381).
SideEffects(trigger) ==
  IF trigger = "print" THEN {"printed"}
  ELSE IF ~ElementPresent THEN {"noElement"}
  ELSE {"noGenerator", "saved"}

\* The continuation of executePrint and handleExportPdf: the remote call
\* has settled.
MutateSettles ==
  /\ \E c \in mutCalls : \E ok \in BOOLEAN : \E e \in SideEffects(c.trigger) :
       /\ remote' = updateRequisitionStatus(remote, c.id, ok)
       /\ mutCalls' = mutCalls \ {c}
       /\ lastOp' = [Op(c.trigger, TRUE, c.id, FALSE, [Quiet EXCEPT !.threw = ~ok])
                       EXCEPT !.effect = e]
  /\ UNCHANGED <<signed, hasEntered, events, outages, clicks, now, permission, loadCall, pollCall, isSyncingRef, isSyncing,
                 documents, docsRef, selectedDocId, isLoading, error, lastSync,
                 processedDocIds, newDocIds, lsProcessed, lsNew, isPrintModalOpen, view,
                 sorted, baselined, applied, reportedArrived>>

\* ---------------------------------------------------------- specification
Next ==
  \/ EnterApp
  \/ RemoteChange
  \/ LoadFetchSettles
  \/ LoadContinue
  \/ TimerTick
  \/ SyncNow
  \/ PollFetchSettles
  \/ PollContinue
  \/ Render
  \/ OpenDocument
  \/ handlePrintRequest
  \/ ClosePrintModal
  \/ executePrint
  \/ handleExportPdf
  \/ MutateSettles

Spec == Init /\ [][Next]_vars

\* ------------------------------------------- specifications of the parts
RECURSIVE Arrangements(_)
\* The sequences without repetition over the members of a set.
Arrangements(S) ==
  {<<>>} \cup UNION {{<<x>> \o a : a \in Arrangements(S \ {x})} : x \in S}

\* The snapshots with distinct identifiers over the given values.
SnapshotsOf(ids, statuses, dates) ==
  UNION {{[i \in 1..Len(a) |-> [id |-> a[i], date |-> dt[i], status |-> st[i]]] :
            st \in [1..Len(a) -> statuses], dt \in [1..Len(a) -> dates]} :
         a \in Arrangements(ids)}

FirstIds(list, n) == {list[i] : i \in 1..n}

\* What is at rest in the specifications of the parts.
AtRest ==
  /\ remote = [i \in DbIds |-> Absent]
  /\ events = MaxEnvEvents
  /\ outages = 0
  /\ clicks = MaxInputs
  /\ now = 0
  /\ loadCall = [pc |-> "done", failed |-> FALSE, resp |-> <<>>]
  /\ mutCalls = {}
  /\ selectedDocId = NULL
  /\ isLoading = FALSE
  /\ error = NULL
  /\ lastSync = 0
  /\ isPrintModalOpen = FALSE
  /\ hasEntered = TRUE
  /\ baselined = TRUE
  /\ reportedArrived = {}
  /\ signed = {}
  /\ lastOp = Idle

\* The dispatch specification: every pair of a rendered snapshot and an
\* answer of the record source, at the point where the poll's await returns.
PollIds == FirstIds(<<"1", "2", "10">>, MaxPollDocs)
PollSnapshots ==
  {s \in SnapshotsOf(PollIds, EnvStatuses, {"2024-01-01", "2024-01-02"}) :
     \A i \in 1..Len(s) : s[i].date = DbDate[s[i].id]}

InitPoll ==
  /\ AtRest
  /\ permission \in Permissions
  /\ documents \in PollSnapshots
  /\ applied = documents
  /\ docsRef = documents
  /\ \E silent \in BOOLEAN, docs \in PollSnapshots :
       pollCall = [pc |-> "replied", silent |-> silent, failed |-> FALSE, resp |-> docs]
  /\ isSyncingRef = TRUE
  /\ isSyncing = TRUE
  /\ processedDocIds = {}
  /\ newDocIds \in {{}, {"1"}}
  /\ lsProcessed = Serialize(processedDocIds)
  /\ lsNew = Serialize(newDocIds)
  /\ view = ViewOf(TRUE, FALSE, NULL, NULL)
  /\ sorted = sidebarDocuments(documents, processedDocIds)

NextPoll ==
  \/ PollContinue
  \/ Render

SpecPoll == InitPoll /\ [][NextPoll]_vars

\* The synchronisation specification: the timer, Sync Now and other
\* clients, from the point where loadData has applied the table.  The event
\* loop runs the continuation of an await whose promise has settled.
InitSync ==
  /\ remote \in InitialRemotes
  /\ events = 0
  /\ outages = 0
  /\ clicks = 0
  /\ now = 0
  /\ permission \in Permissions
  /\ loadCall = [pc |-> "done", failed |-> FALSE, resp |-> <<>>]
  /\ pollCall = [pc |-> "idle", silent |-> TRUE, failed |-> FALSE, resp |-> <<>>]
  /\ mutCalls = {}
  /\ isSyncingRef = FALSE
  /\ isSyncing = FALSE
  /\ documents = MapRows(Select(remote))
  /\ docsRef = documents
  /\ selectedDocId = IF Len(documents) > 0 THEN documents[1].id ELSE NULL
  /\ isLoading = FALSE
  /\ error = IF Len(documents) > 0 THEN NULL ELSE NoRecordsError
  /\ lastSync = 0
  /\ processedDocIds = {}
  /\ newDocIds = {}
  /\ lsProcessed = Serialize(processedDocIds)
  /\ lsNew = Serialize(newDocIds)
  /\ isPrintModalOpen = FALSE
  /\ hasEntered = TRUE
  /\ view = ViewOf(isSyncing, isLoading, error, selectedDocId)
  /\ sorted = sidebarDocuments(documents, processedDocIds)
  /\ baselined = TRUE
  /\ applied = documents
  /\ reportedArrived = {}
  /\ signed = {}
  /\ lastOp = Idle

NextSync ==
  \/ RemoteChange
  \/ TimerTick
  \/ SyncNow
  \/ PollFetchSettles
  \/ PollContinue
  \/ Render

SpecSync == InitSync /\ [][NextSync]_vars /\ WF_vars(PollContinue)

\* The printing specification: the sidebar and the print dialog, from the
\* point where loadData has applied the table, for every table and every
\* processed set an earlier session may have stored.
PrintSnapshots ==
  {s \in SnapshotsOf(DbIds, EnvStatuses, {"2024-01-01", "2024-01-02"}) :
     \A i \in 1..Len(s) : s[i].date = DbDate[s[i].id]}

InitPrint ==
  /\ documents \in PrintSnapshots
  /\ remote = [i \in DbIds |->
                 IF PrevHas(documents, i) THEN PrevGet(documents, i).status ELSE Absent]
  /\ events = MaxEnvEvents
  /\ outages = 0
  /\ clicks = 0
  /\ now = 0
  /\ permission = "default"
  /\ loadCall = [pc |-> "done", failed |-> FALSE, resp |-> <<>>]
  /\ pollCall = [pc |-> "idle", silent |-> TRUE, failed |-> FALSE, resp |-> <<>>]
  /\ mutCalls = {}
  /\ isSyncingRef = FALSE
  /\ isSyncing = FALSE
  /\ docsRef = documents
  /\ selectedDocId = IF Len(documents) > 0 THEN documents[1].id ELSE NULL
  /\ isLoading = FALSE
  /\ error = IF Len(documents) > 0 THEN NULL ELSE NoRecordsError
  /\ lastSync = 0
  /\ processedDocIds \in SUBSET DbIds
  /\ newDocIds = {}
  /\ lsProcessed = Serialize(processedDocIds)
  /\ lsNew = Serialize(newDocIds)
  /\ isPrintModalOpen = FALSE
  /\ hasEntered = TRUE
  /\ view = ViewOf(isSyncing, isLoading, error, selectedDocId)
  /\ sorted = sidebarDocuments(documents, processedDocIds)
  /\ baselined = TRUE
  /\ applied = documents
  /\ reportedArrived = {}
  /\ signed = {}
  /\ lastOp = Idle

NextPrint ==
  \/ OpenDocument
  \/ handlePrintRequest
  \/ ClosePrintModal
  \/ executePrint
  \/ handleExportPdf
  \/ MutateSettles

SpecPrint == InitPrint /\ [][NextPrint]_vars

\* The signing specification: the whole program, started with notifications
\* not yet granted and nothing marked processed.
InitSign ==
  /\ Init
  /\ permission = "default"
  /\ processedDocIds = {}

SpecSign == InitSign /\ [][Next]_vars

\* The ordering specification: every snapshot and processed set, at the
\* point where they have been set and the render is due.
OrderIds == FirstIds(<<"A", "B", "C", "D">>, MaxDocs)
OrderSnapshots == SnapshotsOf(OrderIds, {"Pending", "For signing"}, {"", "2024-01-01", "2024-01-02"})

InitOrder ==
  /\ AtRest
  /\ permission = "default"
  /\ documents \in OrderSnapshots
  /\ applied = documents
  /\ docsRef = <<>>
  /\ pollCall = [pc |-> "idle", silent |-> TRUE, failed |-> FALSE, resp |-> <<>>]
  /\ isSyncingRef = FALSE
  /\ isSyncing = FALSE
  /\ processedDocIds \in SUBSET OrderIds
  /\ newDocIds = {}
  /\ lsProcessed = Serialize({})
  /\ lsNew = Serialize(newDocIds)
  /\ view = ViewOf(FALSE, FALSE, NULL, NULL)
  /\ sorted = <<>>

NextOrder ==
  \/ Render

SpecOrder == InitOrder /\ [][NextOrder]_vars


\* ------------------------------------------------------------- properties
\* What a handler run emitted.
Emitted(op) == op.sound > 0 \/ op.toasts # <<>> \/ op.desk # <<>>

\* C1: a call of checkForNewRecords made while the guard is set, by the
\* timer or by Sync Now, issues no fetch, leaves the snapshot, the last-sync
\* time, the tag sets, the error and the call in flight as they were, and
\* emits nothing.
C1_DroppedPollIsNoOp ==
  [][(isSyncingRef /\ lastOp'.op \in {"timer", "syncNow"}) =>
       /\ ~lastOp'.fetch
       /\ ~Emitted(lastOp')
       /\ UNCHANGED <<pollCall, loadCall, outages, isSyncingRef, isSyncing, documents,
                      docsRef, lastSync, processedDocIds, newDocIds, lsProcessed, lsNew,
                      error, selectedDocId, remote>>]_vars

C1_Witness == lastOp.op = "syncNow" /\ ~lastOp.fetch /\ pollCall.pc = "sent"

\* C2: once the fetch of a poll has settled the guard is eventually clear,
\* by whichever path the continuation ends; when a poll's continuation has
\* run the guard is clear and no call is in flight; and a tick or a Sync Now
\* that finds no call in flight issues a fetch.
C2_GuardReleased ==
  /\ (pollCall.pc = "replied") ~> (~isSyncingRef /\ ~isSyncing)
  /\ [][/\ lastOp'.op = "poll" => (~isSyncingRef' /\ ~isSyncing' /\ pollCall'.pc = "idle")
        /\ (lastOp'.op \in {"timer", "syncNow"} /\ pollCall.pc = "idle") =>
             (lastOp'.fetch /\ pollCall'.pc = "sent")]_vars

C2_Witness == lastOp.op = "poll" /\ lastOp.threw /\ ~isSyncingRef

\* C3: the fetch that is applied first after startup (here one that the
\* database answered) plays no sound, shows no toast or desktop notification
\* and adds nothing to the unseen set.
C3_ColdStartSuppressed ==
  [][(~baselined /\ baselined' /\ ~pollCall.failed /\ ~loadCall.failed) =>
       (~Emitted(lastOp') /\ newDocIds' = newDocIds)]_vars

\* C4: a poll plays the sound once when its fetched snapshot has a record
\* that is new or whose status differs from the rendered one, however many
\* there are, and not at all otherwise.
C4_SoundOnce ==
  lastOp.op = "poll" =>
    LET differs == \E d \in Range(lastOp.next) :
                     \/ \A q \in Range(lastOp.prev) : q.id # d.id
                     \/ \E q \in Range(lastOp.prev) : q.id = d.id /\ q.status # d.status
    IN  lastOp.sound = IF differs THEN 1 ELSE 0

C4_Witness ==
  lastOp.op = "poll" /\ Len(lastOp.newItems) + Len(lastOp.statusChanges) >= 2 /\ lastOp.sound = 1

\* C5: no poll reports as arrived an identifier that an earlier poll
\* reported and that has been in the remote table ever since (here with the
\* database reachable for every fetch so far).
C5_ArrivalReportedOnce ==
  [][(lastOp'.op = "poll" /\ outages = 0) =>
       IdsOf(lastOp'.newItems) \cap reportedArrived = {}]_vars

\* C6: the diff of a poll is the reference diff: the arrived records are the
\* fetched records whose id the previous snapshot lacks, the status changes
\* are the fetched records whose id it has with another status, each once
\* and with its fetched value; the example of the specification included.
C6_DiffIsReference ==
  lastOp.op = "poll" =>
    /\ Range(lastOp.newItems) =
         {d \in Range(lastOp.next) : \A q \in Range(lastOp.prev) : q.id # d.id}
    /\ Range(lastOp.statusChanges) =
         {d \in Range(lastOp.next) :
            \E q \in Range(lastOp.prev) : q.id = d.id /\ q.status # d.status}
    /\ Cardinality(Range(lastOp.newItems)) = Len(lastOp.newItems)
    /\ Cardinality(Range(lastOp.statusChanges)) = Len(lastOp.statusChanges)
    /\ (/\ lastOp.prev = <<[id |-> "1", date |-> "2024-01-01", status |-> "Pending"]>>
        /\ lastOp.next = <<[id |-> "1", date |-> "2024-01-01", status |-> "Approved"],
                           [id |-> "2", date |-> "2024-01-02", status |-> "Pending"]>>)
         => (/\ lastOp.newItems = <<[id |-> "2", date |-> "2024-01-02", status |-> "Pending"]>>
             /\ lastOp.statusChanges =
                  <<[id |-> "1", date |-> "2024-01-01", status |-> "Approved"]>>)

C6_Witness ==
  /\ lastOp.op = "poll"
  /\ lastOp.prev = <<[id |-> "1", date |-> "2024-01-01", status |-> "Pending"]>>
  /\ lastOp.next = <<[id |-> "1", date |-> "2024-01-01", status |-> "Approved"],
                     [id |-> "2", date |-> "2024-01-02", status |-> "Pending"]>>

\* The sidebar list is that of the state.
Rendered == docsRef = documents /\ lsProcessed = Serialize(processedDocIds)

IsPermutation(s, t) ==
  Len(s) = Len(t) /\ \A x \in Range(s) \cup Range(t) :
    Cardinality({i \in 1..Len(s) : s[i] = x}) = Cardinality({i \in 1..Len(t) : t[i] = x})

\* C7: the sidebar list is a permutation of the snapshot, every record that
\* is not processed before every processed one, and two records of one
\* group whose dates are dates are in ascending order of date, then of id.
C7_SidebarOrdered ==
  Rendered =>
    /\ IsPermutation(sorted, documents)
    /\ \A i, j \in 1..Len(sorted) : i < j =>
         LET a == sorted[i]
             b == sorted[j]
             aP == a.id \in processedDocIds \/ a.status = "For signing"
             bP == b.id \in processedDocIds \/ b.status = "For signing"
         IN  /\ ~(aP /\ ~bP)
             /\ (aP = bP /\ DayNumber(a.date) >= 0 /\ DayNumber(b.date) >= 0) =>
                  \/ DayNumber(a.date) < DayNumber(b.date)
                  \/ DayNumber(a.date) = DayNumber(b.date) /\ LexCompare(Chars(a.id), Chars(b.id)) < 0

\* C8: the comparator is a total order on the records of a snapshot: it
\* calls no two distinct records equal, is antisymmetric and transitive;
\* and the list depends on the records only, not on their input order.
C8_ComparatorTotal ==
  LET P == processedDocIds
      D == Range(documents)
      Lt(a, b) == SortOrder(a, b, P) < 0
  IN  /\ \A a, b \in D : a # b => (SortOrder(a, b, P) # 0 /\ (Lt(a, b) <=> ~Lt(b, a)))
      /\ \A a, b, c \in D : (Lt(a, b) /\ Lt(b, c)) => Lt(a, c)
      /\ Rendered => \A a \in Arrangements(Range(documents)) :
           Len(a) = Len(documents) => sidebarDocuments(a, P) = sorted

\* C9: updateStatusToSigning(id) adds id to the processed set, sets the
\* status of the records with that id and changes nothing else of either;
\* called for an id that is in the set and has the status, it changes
\* neither.
C9_SignIdempotent ==
  [][lastOp'.op = "sign" =>
       LET id == lastOp'.id IN
       /\ processedDocIds' = processedDocIds \cup {id}
       /\ Len(documents') = Len(documents)
       /\ \A i \in 1..Len(documents) :
            documents'[i] = IF documents[i].id = id
                            THEN [documents[i] EXCEPT !.status = "For signing"]
                            ELSE documents[i]
       /\ (/\ id \in processedDocIds
           /\ \A i \in 1..Len(documents) :
                documents[i].id = id => documents[i].status = "For signing")
            => UNCHANGED <<documents, processedDocIds>>]_vars

C9_Witness ==
  /\ lastOp.op = "sign"
  /\ lastOp.id \in DbIds
  /\ remote[lastOp.id] = "For signing"
  /\ Len(documents) = 2

\* C10: a poll whose fetch found the database unreachable leaves the
\* snapshot, the last-sync time and the unseen set as they were, plays no
\* sound, and shows the connectivity toast exactly when it was not silent.
C10_FailedFetchChangesNothing ==
  [][(lastOp'.op = "poll" /\ pollCall.failed) =>
       /\ UNCHANGED <<documents, lastSync, newDocIds>>
       /\ lastOp'.sound = 0
       /\ lastOp'.desk = <<>>
       /\ lastOp'.toasts = IF lastOp'.silent THEN <<>> ELSE <<SyncFailedToast>>]_vars

\* C11: the snapshot never holds a record that did not come from the remote
\* table, and a loadData whose fetch found the database unreachable leaves
\* the error state set.
C11_UnreachableRejects ==
  [][/\ IdsOf(documents') \subseteq DbIds
     /\ (lastOp'.op = "load" /\ loadCall.failed) => error' # NULL]_vars

\* C12: without the Notification API a poll whose diff is not empty ends
\* without an error and without the 'Sync failed' toast, applies the fetched
\* snapshot, tags the arrivals as unseen and shows the arrival and the
\* status-change toasts.
C12_ToastOnlyWithoutCapability ==
  (/\ lastOp.op = "poll"
   /\ permission = "absent"
   /\ Len(lastOp.newItems) + Len(lastOp.statusChanges) > 0) =>
    /\ ~lastOp.threw
    /\ lastOp.toasts =
         (IF Len(lastOp.newItems) > 0 THEN <<ArrivalToast(lastOp.newItems)>> ELSE <<>>)
           \o StatusMessages("is now", lastOp.statusChanges)
    /\ lastOp.desk = <<>>
    /\ documents = lastOp.next
    /\ IdsOf(lastOp.newItems) \subseteq newDocIds

\* C13: a step that issues the remote mutate call for an id is a step of
\* updateStatusToSigning in which the records with that id have the status
\* 'For signing' and the id is in the processed set, for print and for
\* export alike; and the id of a call in flight is in the processed set.
C13_LocalBeforeRemote ==
  /\ [][\A c \in mutCalls' \ mutCalls : ~c.refetched =>
          /\ lastOp'.op = "sign" /\ lastOp'.id = c.id
          /\ c.id \in processedDocIds'
          /\ \A i \in 1..Len(documents') :
               documents'[i].id = c.id => documents'[i].status = "For signing"]_vars
  /\ [](\A c \in mutCalls : c.id \in processedDocIds)

C13_Witness ==
  /\ lastOp.op = "sign"
  /\ \E c \in mutCalls : c.trigger = "export" /\ c.id = lastOp.id
  /\ \E i \in 1..Len(documents) : documents[i].id = lastOp.id

\* C15: window.print() or the PDF export happens only in the step in which
\* the remote mutate call made for the selected record by that button
\* returns, with the id in the processed set.
C15_WorkflowBeforeSideEffect ==
  [][lastOp'.op \in {"print", "export"} =>
       /\ \E c \in mutCalls \ mutCalls' : c.id = lastOp'.id /\ c.trigger = lastOp'.op
       /\ lastOp'.id \in processedDocIds']_vars

C15_Witness == lastOp.op = "export" /\ lastOp.id \in DbIds /\ mutCalls = {}

\* The records with the id have the status 'For signing'.
StatusInPlace(docs, id) ==
  \A i \in 1..Len(docs) : docs[i].id = id => docs[i].status = "For signing"

\* C14 as stated: when the failure of the remote mutate call is observed, the
\* id is in the processed set and its records have the status 'For signing'.
C14_InPlaceAtFailure ==
  [][(lastOp'.op \in {"print", "export"} /\ lastOp'.threw) =>
       /\ lastOp'.id \in processedDocIds'
       /\ StatusInPlace(documents', lastOp'.id)]_vars

\* ------------------------------------------------------------ the mount
\* The values the two keys may hold when the page is opened.
StoredValues ==
  {Missing, Corrupt, JsonNull, JsonNumber, JsonString({"1"}), JsonString({"1", "2"}),
   Serialize({}), Serialize({"1"}), Serialize({"1", "2"}), Serialize({NotAnId})}

\* Before the first render: nothing is loaded, no fetch is issued.
InitStore ==
  /\ remote = [i \in DbIds |-> IF i = "1" THEN "Pending" ELSE Absent]
  /\ events = 0
  /\ outages = 0
  /\ clicks = 0
  /\ now = 0
  /\ permission = "default"
  /\ loadCall = [pc |-> "idle", failed |-> FALSE, resp |-> <<>>]
  /\ pollCall = [pc |-> "idle", silent |-> TRUE, failed |-> FALSE, resp |-> <<>>]
  /\ mutCalls = {}
  /\ isSyncingRef = FALSE
  /\ isSyncing = FALSE
  /\ documents = <<>>
  /\ docsRef = <<>>
  /\ selectedDocId = NULL
  /\ isLoading = TRUE
  /\ error = NULL
  /\ lastSync = 0
  /\ processedDocIds = {}
  /\ newDocIds = {}
  /\ lsProcessed \in StoredValues
  /\ lsNew \in StoredValues
  /\ isPrintModalOpen = FALSE
  /\ hasEntered = FALSE
  /\ view = ViewOf(FALSE, TRUE, NULL, NULL)
  /\ sorted = <<>>
  /\ baselined = FALSE
  /\ applied = <<>>
  /\ reportedArrived = {}
  /\ signed = {}
  /\ lastOp = Op("unmounted", TRUE, NULL, FALSE, Quiet)

\* The first render and its effects: the two initialisers load the tag sets,
\* the effects write them back, loadData issues its fetch.
Mount ==
  /\ lastOp.op = "unmounted"
  /\ processedDocIds' = LoadSet(lsProcessed)
  /\ newDocIds' = LoadSet(lsNew)
  /\ lsProcessed' = Serialize(LoadSet(lsProcessed))
  /\ lsNew' = Serialize(LoadSet(lsNew))
  /\ loadCall' = [pc |-> "sent", failed |-> FALSE, resp |-> <<>>]
  /\ lastOp' = Op("mount", TRUE, NULL, TRUE, Quiet)
  /\ UNCHANGED <<signed, remote, events, outages, clicks, now, permission, pollCall, mutCalls,
                 isSyncingRef, isSyncing, documents, docsRef, selectedDocId, isLoading,
                 error, lastSync, isPrintModalOpen, hasEntered, view, sorted, baselined,
                 applied, reportedArrived>>

NextStore ==
  \/ Mount
  \/ lastOp.op # "unmounted" /\ (LoadFetchSettles \/ LoadContinue \/ Render)

SpecStore == InitStore /\ [][NextStore]_vars

\* JSON of a list of identifiers.
IsIdList(saved) == saved.kind = "array" /\ saved.items \subseteq DbIds

\* C18: the mount gives ProcessedSet and UnseenSet the empty set, each on its
\* own, when its key holds anything but the JSON of a list of identifiers.
C18_EmptyUnlessIdList ==
  [][lastOp'.op = "mount" =>
       /\ ~IsIdList(lsProcessed) => processedDocIds' = {}
       /\ ~IsIdList(lsNew) => newDocIds' = {}]_vars

\* C16: executePrint and handleExportPdf run the status transition only for
\* an id that a record of the current snapshot has, be it the snapshot as
\* last rendered or the one just set (here with the database reachable for
\* every fetch so far).
C16_SignOnlyPresentRecord ==
  [][(lastOp'.op = "sign" /\ outages = 0) =>
       PrevHas(documents, lastOp'.id) \/ PrevHas(docsRef, lastOp'.id)]_vars

C19_ErrorClearedByPoll ==
  [][(lastOp'.op = "poll" /\ outages = 0 /\ ~lastOp'.threw /\ Len(documents') > 0) =>
       error' = NULL]_vars

\* C20: the previous snapshot a poll diffs against is the list the last
\* applied fetch set (here with the database reachable for every fetch so
\* far, the last render up to date and the poll running to its end).
C20_PreviousIsLastApplied ==
  [][(lastOp'.op = "poll" /\ outages = 0 /\ ~RenderPending /\ ~lastOp'.threw) =>
       lastOp'.prev = applied]_vars

\* A poll that has run with a difference to report, and one with none.
DiffNonEmpty == Len(lastOp.newItems) + Len(lastOp.statusChanges) > 0

\* C21: with the permission granted, denied or default, a poll with a
\* non-empty difference shows one toast for the arrivals, if any, and one per
\* record whose status changed, in that order; the arrival toast names the
\* record when one arrived and gives the count when more did.
C21_ToastsPerDiff ==
  (lastOp.op = "poll" /\ DiffNonEmpty /\ permission \in {"granted", "denied", "default"}) =>
    LET a == IF Len(lastOp.newItems) > 0 THEN 1 ELSE 0 IN
      /\ Len(lastOp.toasts) = a + Len(lastOp.statusChanges)
      /\ Len(lastOp.newItems) = 1 =>
           lastOp.toasts[1] = Toast("New Requisition received", lastOp.newItems[1].id, 1, "")
      /\ Len(lastOp.newItems) > 1 =>
           lastOp.toasts[1] = Toast("new requisitions received", "", Len(lastOp.newItems), "")
      /\ \A i \in 1..Len(lastOp.statusChanges) :
           lastOp.toasts[a + i] =
             Toast("is now", lastOp.statusChanges[i].id, 1, lastOp.statusChanges[i].status)

C21_Witness ==
  /\ lastOp.op = "poll"
  /\ permission = "denied"
  /\ Len(lastOp.newItems) = 1
  /\ Len(lastOp.statusChanges) = 1
  /\ Len(lastOp.toasts) = 2

\* C22: a poll notifies the desktop exactly when the permission is granted:
\* then once for the arrivals, if any, in the singular for one and with the
\* count for more, and once per record whose status changed; otherwise never.
C22_DesktopIffGranted ==
  lastOp.op = "poll" =>
    LET a == IF Len(lastOp.newItems) > 0 THEN 1 ELSE 0 IN
      /\ permission # "granted" => lastOp.desk = <<>>
      /\ permission = "granted" =>
           /\ Len(lastOp.desk) = a + Len(lastOp.statusChanges)
           /\ Len(lastOp.newItems) = 1 =>
                lastOp.desk[1] = Toast("New Requisition", lastOp.newItems[1].id, 1, "")
           /\ Len(lastOp.newItems) > 1 =>
                lastOp.desk[1] = Toast("New Requisitions", "", Len(lastOp.newItems), "")
           /\ \A i \in 1..Len(lastOp.statusChanges) :
                lastOp.desk[a + i] =
                  Toast("Status Updated", lastOp.statusChanges[i].id, 1,
                        lastOp.statusChanges[i].status)

C22_Witness ==
  /\ lastOp.op = "poll"
  /\ permission = "granted"
  /\ Len(lastOp.newItems) = 2
  /\ Len(lastOp.desk) = 1

\* C23: a poll with an empty difference shows the up-to-date toast, and
\* nothing else, when the user asked for it, and emits nothing when the timer
\* did; a poll with a difference never shows the up-to-date toast.
C23_UpToDateToast ==
  lastOp.op = "poll" =>
    /\ (~DiffNonEmpty /\ ~lastOp.silent) =>
         lastOp.toasts = <<UpToDateToast>> /\ lastOp.sound = 0 /\ lastOp.desk = <<>>
    /\ (~DiffNonEmpty /\ lastOp.silent) =>
         lastOp.toasts = <<>> /\ lastOp.sound = 0 /\ lastOp.desk = <<>>
    /\ DiffNonEmpty => \A i \in 1..Len(lastOp.toasts) : lastOp.toasts[i] # UpToDateToast

C23_Witness ==
  /\ lastOp.op = "poll"
  /\ lastOp.silent
  /\ ~DiffNonEmpty
  /\ Len(lastOp.prev) = 2
  /\ permission = "granted"

\* C24: a step changes UnseenSet only by a poll adding its arrivals to the
\* current members or by a click on a sidebar entry removing that entry's id
\* from them, and changes ProcessedSet only by the status transition adding
\* its id; a poll keeps every member and adds every arrival whatever has
\* been rendered since.
C24_ReadMergeWrite ==
  [][/\ lastOp'.op = "poll" => newDocIds' = newDocIds \cup IdsOf(lastOp'.newItems)
     /\ newDocIds' # newDocIds =>
          \/ lastOp'.op = "poll"
          \/ /\ clicks' = clicks + 1
             /\ PrevHas(docsRef, selectedDocId')
             /\ newDocIds' = newDocIds \ {selectedDocId'}
     /\ lastOp'.op = "sign" => processedDocIds' = processedDocIds \cup {lastOp'.id}
     /\ processedDocIds' # processedDocIds => lastOp'.op = "sign"]_vars

\* A record was opened after a poll tagged another one and before the
\* render of that poll.
C24_Witness ==
  /\ lastOp.op = "idle"
  /\ clicks = 1
  /\ now = 1
  /\ selectedDocId = "1"
  /\ newDocIds = {"2"}
  /\ reportedArrived = {"2"}
  /\ lsNew = Serialize({"2"})
  /\ pollCall.pc = "idle"

\* C25: a step that makes a record the selected one leaves its id out of
\* UnseenSet.
C25_SelectedNotUnseen ==
  [][selectedDocId' # selectedDocId => selectedDocId' \notin newDocIds']_vars

\* C26: no step removes an id from ProcessedSet.
C26_ProcessedGrows ==
  [][processedDocIds \subseteq processedDocIds']_vars

C26_Witness ==
  /\ lastOp.op = "poll"
  /\ processedDocIds = {"1"}
  /\ ~PrevHas(documents, "1")
  /\ PrevHas(lastOp.prev, "1")

\* C27: a poll sets the snapshot to the list fetched: no record the fetch
\* lacks survives, and a record the fetch has is the fetched one, whatever
\* the previous snapshot held under its id.
C27_WholesaleReplace ==
  [][lastOp'.op = "poll" =>
       /\ documents' = pollCall.resp
       /\ lastOp'.next = pollCall.resp
       /\ \A i \in 1..Len(documents) :
            ~PrevHas(pollCall.resp, documents[i].id) => ~PrevHas(documents', documents[i].id)]_vars

C27_Witness ==
  /\ lastOp.op = "poll"
  /\ documents = lastOp.next
  /\ \E i \in 1..Len(lastOp.prev) :
       /\ lastOp.prev[i].status = "For signing"
       /\ PrevHas(documents, lastOp.prev[i].id)
       /\ PrevGet(documents, lastOp.prev[i].id).status = "Pending"

\* C28: a poll whose fetch found the database unreachable leaves the
\* last-sync timestamp.
C28_FailedFetchKeepsLastSync ==
  [][(lastOp'.op = "poll" /\ pollCall.failed) => lastSync' = lastSync]_vars

\* The fetched list is the previous one less some records.
OnlyDisappeared(prev, next) ==
  /\ Len(next) < Len(prev)
  /\ \A i \in 1..Len(next) :
       PrevHas(prev, next[i].id) /\ PrevGet(prev, next[i].id).status = next[i].status

\* C29: a poll whose fetched list differs from the previous snapshot only
\* by records that are gone plays no sound, notifies nothing, shows no toast
\* but the up-to-date one and leaves UnseenSet and ProcessedSet.
C29_DisappearanceIsSilent ==
  [][(lastOp'.op = "poll" /\ OnlyDisappeared(lastOp'.prev, lastOp'.next)) =>
       /\ lastOp'.sound = 0
       /\ lastOp'.desk = <<>>
       /\ ~lastOp'.threw
       /\ \A i \in 1..Len(lastOp'.toasts) : lastOp'.toasts[i] = UpToDateToast
       /\ newDocIds' = newDocIds
       /\ processedDocIds' = processedDocIds]_vars

C29_Witness ==
  /\ lastOp.op = "poll"
  /\ Len(lastOp.prev) = 2
  /\ lastOp.next = <<>>
  /\ documents = <<>>
  /\ newDocIds = {"1"}
  /\ permission = "granted"

C31_SignedStaysForSigning ==
  (events = 0 /\ outages = 0) =>
    /\ \A i \in 1..Len(documents) :
         documents[i].id \in signed => documents[i].status = "For signing"
    /\ lastOp.op = "poll" =>
         \A i \in 1..Len(lastOp.statusChanges) : lastOp.statusChanges[i].id \notin signed

\* The NEW badge of a sidebar entry (lines 638 and 668).
NewBadge(doc, unseen, processed) == doc.id \in unseen /\ ~isDocProcessed(doc, processed)

\* C32: a record whose id updateStatusToSigning has run for is classified as
\* processed whatever its status: in the snapshot, and in the sidebar as
\* rendered, where it has no NEW badge and only processed records follow it.
C32_SignedIsProcessed ==
  /\ \A i \in 1..Len(documents) :
       documents[i].id \in signed => isDocProcessed(documents[i], processedDocIds)
  /\ \A i \in 1..Len(sorted) :
       sorted[i].id \in signed =>
         /\ isDocProcessed(sorted[i], LoadSet(lsProcessed))
         /\ ~NewBadge(sorted[i], LoadSet(lsNew), LoadSet(lsProcessed))
         /\ \A j \in i..Len(sorted) : isDocProcessed(sorted[j], LoadSet(lsProcessed))

C32_Witness ==
  \E i \in 1..Len(sorted) :
    /\ sorted[i].id \in signed
    /\ sorted[i].status = "Pending"
    /\ sorted[i].id \in LoadSet(lsNew)
    /\ documents = docsRef

\* C33: the initial load, applied after a poll has set a snapshot that is
\* the table as it stands, does not replace it with another list (here with
\* the database reachable for every fetch so far).
C33_LoadNeverOverwritesLater ==
  [][(lastOp'.op = "load" /\ baselined /\ outages = 0
        /\ documents = MapRows(Select(remote))) => documents' = documents]_vars

\* C34: when the export is abandoned for want of the element or of the
\* generator, the id is in ProcessedSet, the transition has run for it and
\* its records have the status 'For signing' (here with no other client
\* writing the table and the database reachable).
C34_AbandonedExportApplied ==
  [][(lastOp'.op = "export" /\ lastOp'.effect \in {"noElement", "noGenerator"}
        /\ events = 0 /\ outages = 0) =>
       /\ lastOp'.id \in processedDocIds'
       /\ lastOp'.id \in signed'
       /\ StatusInPlace(documents', lastOp'.id)]_vars

\* ------------------------------------------------------ the row mapping
\* What the status column of a row may hold: the four statuses, no value,
\* the empty string, another case, another word.
RawStatuses == Statuses \cup {NULL, "", "approved", "Done"}

\* The mapping specification: the initial load of every table over these.
InitMap ==
  /\ remote \in [DbIds -> RawStatuses \cup {Absent}]
  /\ events = MaxEnvEvents
  /\ outages = 0
  /\ clicks = 0
  /\ now = 0
  /\ permission = "default"
  /\ loadCall = [pc |-> "sent", failed |-> FALSE, resp |-> <<>>]
  /\ pollCall = [pc |-> "idle", silent |-> TRUE, failed |-> FALSE, resp |-> <<>>]
  /\ mutCalls = {}
  /\ isSyncingRef = FALSE
  /\ isSyncing = FALSE
  /\ documents = <<>>
  /\ docsRef = <<>>
  /\ selectedDocId = NULL
  /\ isLoading = TRUE
  /\ error = NULL
  /\ lastSync = 0
  /\ processedDocIds = {}
  /\ newDocIds = {}
  /\ lsProcessed = Serialize({})
  /\ lsNew = Serialize({})
  /\ isPrintModalOpen = FALSE
  /\ hasEntered = FALSE
  /\ view = ViewOf(FALSE, TRUE, NULL, NULL)
  /\ sorted = <<>>
  /\ baselined = FALSE
  /\ applied = <<>>
  /\ reportedArrived = {}
  /\ signed = {}
  /\ lastOp = Op("mount", TRUE, NULL, TRUE, Quiet)

NextMap ==
  \/ LoadFetchSettles
  \/ LoadContinue
  \/ Render

SpecMap == InitMap /\ [][NextMap]_vars

\* C35: a record the load applies from the table has one of the four
\* statuses: the one of its row when the row has one of them, Pending
\* otherwise.
C35_StatusMapping ==
  lastOp.op = "load" =>
    \A i \in 1..Len(documents) :
      LET raw == remote[documents[i].id] IN
        /\ documents[i].status \in Statuses
        /\ raw \in Statuses => documents[i].status = raw
        /\ raw \notin Statuses => documents[i].status = "Pending"

C35_Witness ==
  /\ lastOp.op = "load"
  /\ Len(documents) = 2
  /\ \E i, j \in 1..2 :
       /\ remote[documents[i].id] = "approved" /\ documents[i].status = "Pending"
       /\ remote[documents[j].id] = "Processing" /\ documents[j].status = "Processing"

====
